---- MODULE Spec2Model ----
(***************************************************************************)
(* Model of arcgiscsv (src/arcgiscsv/__init__.py): dump_fc, write_to_csv,  *)
(* get_fields_from_table and _prepare_for_csv.                             *)
(*                                                                         *)
(* One behaviour is one call of one of the three public functions.  The    *)
(* external collaborators (arcpy, the file system) are the environment:    *)
(* every call into them that can raise is a nondeterministic choice        *)
(* between success and an exception.                                       *)
(***************************************************************************)
EXTENDS Integers, Sequences, FiniteSets, TLC

(***************************************************************************)
(* Bounds of the model.                                                    *)
(***************************************************************************)
MaxFields == 3
MaxRows == 2

(***************************************************************************)
(* The inputs: field names, field types, patterns.                         *)
(***************************************************************************)
\* An optional argument is <<>> (None) or <<value>>.
None == <<>>

FieldNames == {"OBJECTID", "NAME", "Shape", "Shape_Length"}

FieldTypes == {"OID", "String", "Date", "Geometry"}

\* The token dump_fc appends for the geometry column (line 107).
SHAPE_WKB == "SHAPE@WKB"

\* The characters of the strings that names and patterns are made of.
Chars(s) ==
    CASE s = "OBJECTID"     -> <<"O", "B", "J", "E", "C", "T", "I", "D">>
      [] s = "NAME"         -> <<"N", "A", "M", "E">>
      [] s = "Shape"        -> <<"S", "h", "a", "p", "e">>
      [] s = "Shape_Length" -> <<"S", "h", "a", "p", "e", "_", "L", "e", "n", "g", "t", "h">>
      [] s = "shape"        -> <<"s", "h", "a", "p", "e">>
      [] s = "name"         -> <<"n", "a", "m", "e">>

\* Case folding of one character, as re.IGNORECASE compares.
Lower(c) ==
    CASE c = "A" -> "a" [] c = "B" -> "b" [] c = "C" -> "c" [] c = "D" -> "d"
      [] c = "E" -> "e" [] c = "G" -> "g" [] c = "H" -> "h" [] c = "I" -> "i"
      [] c = "J" -> "j" [] c = "K" -> "k" [] c = "L" -> "l" [] c = "M" -> "m"
      [] c = "N" -> "n" [] c = "O" -> "o" [] c = "P" -> "p" [] c = "S" -> "s"
      [] c = "T" -> "t" [] c = "W" -> "w"
      [] OTHER -> c

\* A compiled regular expression: a literal and the re.IGNORECASE flag.
\* The default value of skip_re (line 70).
DefaultSkipRe == [lit |-> "Shape_Length", ic |-> TRUE]

Patterns == {DefaultSkipRe, [lit |-> "shape", ic |-> TRUE], [lit |-> "name", ic |-> FALSE]}

\* pattern.match(name): the pattern matches at position 0 of name.
ReMatch(pat, name) ==
    LET p == Chars(pat.lit)
        n == Chars(name)
    IN  /\ Len(p) <= Len(n)
        /\ \A i \in 1..Len(p) :
              IF pat.ic THEN Lower(p[i]) = Lower(n[i]) ELSE p[i] = n[i]

\* A schema: fields in declared order, names unique within one table.
FieldDescs == [name : FieldNames, type : FieldTypes]

Schemas ==
    UNION { { s \in [1..n -> FieldDescs] :
                \A i, j \in 1..n : i # j => s[i].name # s[j].name } :
            n \in 0..MaxFields }

(***************************************************************************)
(* Values.  Every value is [kind, data] with data a sequence of numbers:   *)
(* the number of an int, the code points of a str, <<date, time>> of a     *)
(* datetime, <<date>> of a date, the bytes of a bytearray.                 *)
(***************************************************************************)
NameId(name) ==
    CASE name = "OBJECTID" -> 1 [] name = "NAME" -> 2
      [] name = "Shape" -> 3 [] name = "Shape_Length" -> 4

\* The table's content: the value of field `name` of type `type` in row r.
TableValue(name, type, r) ==
    CASE type = "OID"      -> [kind |-> "int", data |-> <<10 * NameId(name) + r>>]
      [] type = "String"   -> [kind |-> "str", data |-> <<64 + NameId(name), 48 + r>>]
      [] type = "Date"     -> [kind |-> "datetime", data |-> <<20200100 + NameId(name), 3600 * r>>]
      [] type = "Geometry" -> [kind |-> "tuple", data |-> <<NameId(name), r>>]

\* The well-known binary of the geometry of row r, a bytearray.
WKB(r) == [kind |-> "bytearray", data |-> [i \in 1..(r + 1) |-> IF i = 1 THEN 1 ELSE 250 + i]]

\* The base64 alphabet, as code points.
B64Char(i) ==
    IF i < 26 THEN 65 + i
    ELSE IF i < 52 THEN 97 + (i - 26)
    ELSE IF i < 62 THEN 48 + (i - 52)
    ELSE IF i = 62 THEN 43 ELSE 47

RECURSIVE b64encode(_)
b64encode(b) ==
    IF Len(b) = 0 THEN <<>>
    ELSE IF Len(b) = 1 THEN
        LET n == b[1] * 65536
        IN  <<B64Char(n \div 262144), B64Char((n \div 4096) % 64), 61, 61>>
    ELSE IF Len(b) = 2 THEN
        LET n == b[1] * 65536 + b[2] * 256
        IN  <<B64Char(n \div 262144), B64Char((n \div 4096) % 64),
              B64Char((n \div 64) % 64), 61>>
    ELSE
        LET n == b[1] * 65536 + b[2] * 256 + b[3]
        IN  <<B64Char(n \div 262144), B64Char((n \div 4096) % 64),
              B64Char((n \div 64) % 64), B64Char(n % 64)>>
            \o b64encode(SubSeq(b, 4, Len(b)))

\* _prepare_for_csv (lines 60-68).
prepare_for_csv(item) ==
    IF item.kind = "bytearray" THEN [kind |-> "str", data |-> b64encode(item.data)]
    ELSE IF item.kind = "datetime" THEN [kind |-> "date", data |-> <<item.data[1]>>]
    ELSE item

(***************************************************************************)
(* The field list of dump_fc (lines 96-107).                               *)
(***************************************************************************)
\* Variant of line 100 without the identifier test.
field_skipped_pattern_only(field, omit_oid_arg, skip_re_arg) ==
    skip_re_arg # None /\ ReMatch(skip_re_arg[1], field.name)

\* The condition of line 100: the field is left out of the cursor.
field_skipped(field, omit_oid_arg, skip_re_arg) ==
    \/ (skip_re_arg # None /\ ReMatch(skip_re_arg[1], field.name))
    \/ (omit_oid_arg /\ field.type = "OID")

\* Variant of lines 100-105 that lists the geometry token where the geometry
\* field stands, besides setting has_geometry.
loop_body_inline_geometry(acc, field, omit_oid_arg, skip_re_arg) ==
    IF (skip_re_arg # None /\ ReMatch(skip_re_arg[1], field.name))
       \/ (omit_oid_arg /\ field.type = "OID")
    THEN acc
    ELSE IF field.type = "Geometry"
         THEN [acc EXCEPT !.has_geometry = TRUE, !.field_list = Append(@, SHAPE_WKB)]
    ELSE [acc EXCEPT !.field_list = Append(@, field.name)]

\* One pass of the loop body (lines 100-105) over acc = [field_list, has_geometry].
loop_body(acc, field, omit_oid_arg, skip_re_arg) ==
    IF field_skipped(field, omit_oid_arg, skip_re_arg) THEN acc
    ELSE IF field.type = "Geometry" THEN [acc EXCEPT !.has_geometry = TRUE]
    ELSE [acc EXCEPT !.field_list = Append(@, field.name)]

RECURSIVE resolve_loop(_, _, _, _, _)
resolve_loop(fields, i, omit_oid_arg, skip_re_arg, acc) ==
    IF i > Len(fields) THEN acc
    ELSE resolve_loop(fields, i + 1, omit_oid_arg, skip_re_arg,
                      loop_body(acc, fields[i], omit_oid_arg, skip_re_arg))

\* Lines 97-107: the loop, then the geometry token appended once.
resolve_fields(fields, omit_oid_arg, skip_re_arg) ==
    LET acc == resolve_loop(fields, 1, omit_oid_arg, skip_re_arg,
                            [field_list |-> <<>>, has_geometry |-> FALSE])
    IN  IF acc.has_geometry THEN Append(acc.field_list, SHAPE_WKB) ELSE acc.field_list

(***************************************************************************)
(* The cursor (arcpy.da.SearchCursor).                                     *)
(***************************************************************************)
FieldType(fields, name) ==
    fields[CHOOSE i \in 1..Len(fields) : fields[i].name = name].type

\* cursor.fields: "*" expands to every field of the table, in order.
cursor_fields(fields, names_arg) ==
    IF names_arg.star THEN [i \in 1..Len(fields) |-> fields[i].name] ELSE names_arg.names

\* Row r of the cursor: one value per requested field, in the requested order.
cursor_row(fields, names, r) ==
    [i \in 1..Len(names) |->
        IF names[i] = SHAPE_WKB THEN WKB(r)
        ELSE TableValue(names[i], FieldType(fields, names[i]), r)]

\* map(_prepare_for_csv, row) (line 121).
prepare_row(r) == [i \in 1..Len(r) |-> prepare_for_csv(r[i])]

(***************************************************************************)
(* get_fields_from_table (lines 13-28).  The loop either returns the       *)
(* output list or raises: a compiled pattern has no attribute `matches`,   *)
(* so line 26 raises AttributeError as soon as the right operand of `or`   *)
(* is evaluated.                                                           *)
(***************************************************************************)
RECURSIVE get_fields_loop(_, _, _, _)
get_fields_loop(fields, i, omit_re, output_acc) ==
    IF i > Len(fields) THEN [raised |-> "", output |-> output_acc]
    ELSE IF omit_re = None
         THEN get_fields_loop(fields, i + 1, omit_re, Append(output_acc, fields[i].name))
         ELSE [raised |-> "AttributeError", output |-> <<>>]

(***************************************************************************)
(* State.                                                                  *)
(***************************************************************************)
VARIABLES
    op,             \* the function called
    schema,         \* the fields of the source, in declared order
    exists,         \* arcpy.Exists(source)
    nrows,          \* the number of rows the source holds
    omit_oid,       \* dump_fc argument
    skip_re,        \* dump_fc argument: None or <<pattern>>
    out_file,       \* the destination path; "" is a falsy path
    field_names,    \* write_to_csv argument
    omit_fields_re, \* get_fields_from_table argument: None or <<pattern>>
    pc,             \* position in the function
    field_list,     \* dump_fc: field_list; write_to_csv: cursor.fields
    file_obj,       \* the destination handle: "None", "open" or "closed"
    opens,          \* calls of open() on the destination
    closes,         \* calls of close() on the destination handle
    cursor,         \* the cursor: "None", "open" or "released"
    cursors,        \* calls of arcpy.da.SearchCursor
    read,           \* rows the cursor has yielded
    row,            \* the row in hand
    dest,           \* the rows written to the destination, in order
    row_count,      \* write_to_csv: row_count
    output,         \* get_fields_from_table: the returned list
    error,          \* the exception propagating, "" when none
    raisedAt        \* the positions that raised, in order

inputs == <<op, schema, exists, nrows, omit_oid, skip_re, out_file, field_names,
            omit_fields_re>>

vars == <<op, schema, exists, nrows, omit_oid, skip_re, out_file, field_names,
          omit_fields_re, pc, field_list, file_obj, opens, closes, cursor,
          cursors, read, row, dest, row_count, output, error, raisedAt>>

Terminal == {"returned", "raised"}

OptPatterns == {None} \cup {<<p>> : p \in Patterns}

Star == [star |-> TRUE, names |-> <<>>]

\* The locals of a call before its first statement.
InitLocals ==
    /\ field_list = <<>>
    /\ file_obj = "None"
    /\ opens = 0
    /\ closes = 0
    /\ cursor = "None"
    /\ cursors = 0
    /\ read = 0
    /\ row = <<>>
    /\ dest = <<>>
    /\ row_count = 0
    /\ output = <<>>
    /\ error = ""
    /\ raisedAt = <<>>

\* A source that does not exist has no fields and no rows.
InitSource ==
    /\ exists \in BOOLEAN
    /\ schema \in (IF exists THEN Schemas ELSE {<<>>})
    /\ nrows \in (IF exists THEN 0..MaxRows ELSE {0})

Init_dump_fc ==
    /\ op = "dump_fc"
    /\ pc = "exists"
    /\ omit_oid \in BOOLEAN
    /\ skip_re \in OptPatterns
    /\ out_file \in {"", "out.csv"}
    /\ field_names = Star
    /\ omit_fields_re = None

Init_write_to_csv ==
    /\ op = "write_to_csv"
    /\ pc = "w_open"
    /\ omit_oid = TRUE
    /\ skip_re = None
    /\ out_file = "out.csv"
    /\ field_names \in {Star} \cup
          {[star |-> FALSE, names |-> <<schema[i].name>>] : i \in 1..Len(schema)}
    /\ omit_fields_re = None

Init_get_fields ==
    /\ op = "get_fields_from_table"
    /\ pc = "g_call"
    /\ omit_oid = TRUE
    /\ skip_re = None
    /\ out_file = ""
    /\ field_names = Star
    /\ omit_fields_re \in OptPatterns

Init ==
    /\ InitSource
    /\ InitLocals
    /\ (Init_dump_fc \/ Init_write_to_csv \/ Init_get_fields)

\* One line of the destination: what one call of csv_writer.writerow wrote.
HeaderLine(names) == [kind |-> "header", cells |-> names]

RowLine(values) == [kind |-> "row", cells |-> values]

\* An exception raised at position `at`.
Raise(exc, at) ==
    /\ error' = exc
    /\ raisedAt' = Append(raisedAt, at)

NoRaise == UNCHANGED <<error, raisedAt>>

(***************************************************************************)
(* dump_fc (lines 70-127).                                                 *)
(***************************************************************************)
\* Variant of lines 90-93 without the test of arcpy.Exists.
dump_fc_exists_unchecked ==
    /\ pc = "exists"
    /\ pc' = "describe"
    /\ UNCHANGED <<inputs, field_list, file_obj, opens, closes, cursor, cursors,
                   read, row, dest, row_count, output, error, raisedAt>>

\* Lines 90-93.
dump_fc_exists ==
    /\ pc = "exists"
    /\ IF exists
       THEN pc' = "describe" /\ NoRaise
       ELSE pc' = "raised" /\ Raise("FileNotFoundError", "exists")
    /\ UNCHANGED <<inputs, field_list, file_obj, opens, closes, cursor, cursors,
                   read, row, dest, row_count, output>>

\* Lines 96-107.
dump_fc_describe ==
    /\ pc = "describe"
    /\ field_list' = resolve_fields(schema, omit_oid, skip_re)
    /\ pc' = "open"
    /\ UNCHANGED <<inputs, file_obj, opens, closes, cursor, cursors, read, row,
                   dest, row_count, output, error, raisedAt>>

\* Variant of lines 109-112 that goes on to the cursor after a failed open().
dump_fc_open_goes_on ==
    /\ pc = "open"
    /\ IF out_file = ""
       THEN /\ pc' = "header"
            /\ UNCHANGED <<file_obj, opens, error, raisedAt>>
       ELSE \E ok \in BOOLEAN :
            /\ opens' = opens + 1
            /\ IF ok
               THEN file_obj' = "open" /\ pc' = "header" /\ NoRaise
               ELSE file_obj' = file_obj /\ pc' = "cursor" /\ Raise("OSError", "open")
    /\ UNCHANGED <<inputs, field_list, closes, cursor, cursors, read, row, dest,
                   row_count, output>>

\* Lines 109-112: open() inside the try; a falsy out_file opens nothing.
dump_fc_open ==
    /\ pc = "open"
    /\ IF out_file = ""
       THEN /\ pc' = "header"
            /\ UNCHANGED <<file_obj, opens, error, raisedAt>>
       ELSE \E ok \in BOOLEAN :
            /\ opens' = opens + 1
            /\ IF ok
               THEN file_obj' = "open" /\ pc' = "header" /\ NoRaise
               ELSE file_obj' = file_obj /\ pc' = "finally" /\ Raise("OSError", "open")
    /\ UNCHANGED <<inputs, field_list, closes, cursor, cursors, read, row, dest,
                   row_count, output>>

\* Variant of lines 114-117 that writes the names of all the fields of the
\* source as the header.
dump_fc_header_all_fields ==
    /\ pc = "header"
    /\ IF file_obj # "open"
       THEN /\ pc' = "finally"
            /\ Raise("UnboundLocalError", "header")
            /\ dest' = dest
       ELSE \E ok \in BOOLEAN :
            IF ok
            THEN /\ dest' = Append(dest, HeaderLine([i \in 1..Len(schema) |-> schema[i].name]))
                 /\ pc' = "cursor"
                 /\ NoRaise
            ELSE dest' = dest /\ pc' = "finally" /\ Raise("OSError", "header")
    /\ UNCHANGED <<inputs, field_list, file_obj, opens, closes, cursor, cursors,
                   read, row, row_count, output>>

\* Lines 114-117: csv_writer is bound only when file_obj is set.
dump_fc_header ==
    /\ pc = "header"
    /\ IF file_obj # "open"
       THEN /\ pc' = "finally"
            /\ Raise("UnboundLocalError", "header")
            /\ dest' = dest
       ELSE \E ok \in BOOLEAN :
            IF ok
            THEN dest' = Append(dest, HeaderLine(field_list)) /\ pc' = "cursor" /\ NoRaise
            ELSE dest' = dest /\ pc' = "finally" /\ Raise("OSError", "header")
    /\ UNCHANGED <<inputs, field_list, file_obj, opens, closes, cursor, cursors,
                   read, row, row_count, output>>

\* Line 118: the cursor is opened on field_list.
dump_fc_cursor ==
    /\ pc = "cursor"
    /\ cursors' = cursors + 1
    /\ \E ok \in BOOLEAN :
         IF ok
         THEN cursor' = "open" /\ pc' = "next" /\ NoRaise
         ELSE cursor' = cursor /\ pc' = "finally" /\ Raise("RuntimeError", "cursor")
    /\ UNCHANGED <<inputs, field_list, file_obj, opens, closes, read, row, dest,
                   row_count, output>>

\* Variant of line 120 with the cursor outside any with block: a failed
\* read goes to the finally block with the cursor still open.
dump_fc_next_no_with ==
    /\ pc = "next"
    /\ IF read < nrows
       THEN \E ok \in BOOLEAN :
            IF ok
            THEN /\ read' = read + 1
                 /\ row' = cursor_row(schema, field_list, read + 1)
                 /\ pc' = "writerow"
                 /\ NoRaise
            ELSE /\ UNCHANGED <<read, row>>
                 /\ pc' = "finally"
                 /\ Raise("RuntimeError", "next")
       ELSE /\ row' = <<>>
            /\ read' = read
            /\ pc' = "cursor_exit"
            /\ NoRaise
    /\ UNCHANGED <<inputs, field_list, file_obj, opens, closes, cursor, cursors,
                   dest, row_count, output>>

\* Line 120: the next row, the end of the rows (then line 122), or a failed read.
dump_fc_next ==
    /\ pc = "next"
    /\ IF read < nrows
       THEN \E ok \in BOOLEAN :
            IF ok
            THEN /\ read' = read + 1
                 /\ row' = cursor_row(schema, field_list, read + 1)
                 /\ pc' = "writerow"
                 /\ NoRaise
            ELSE /\ UNCHANGED <<read, row>>
                 /\ pc' = "cursor_exit"
                 /\ Raise("RuntimeError", "next")
       ELSE /\ row' = <<>>
            /\ read' = read
            /\ pc' = "cursor_exit"
            /\ NoRaise
    /\ UNCHANGED <<inputs, field_list, file_obj, opens, closes, cursor, cursors,
                   dest, row_count, output>>

\* Line 121.
dump_fc_writerow ==
    /\ pc = "writerow"
    /\ \E ok \in BOOLEAN :
         IF ok
         THEN dest' = Append(dest, RowLine(prepare_row(row))) /\ pc' = "next" /\ NoRaise
         ELSE dest' = dest /\ pc' = "cursor_exit" /\ Raise("OSError", "writerow")
    /\ UNCHANGED <<inputs, field_list, file_obj, opens, closes, cursor, cursors,
                   read, row, row_count, output>>

\* Line 118: leaving the with block releases the cursor.
dump_fc_cursor_exit ==
    /\ pc = "cursor_exit"
    /\ cursor' = "released"
    /\ pc' = "finally"
    /\ UNCHANGED <<inputs, field_list, file_obj, opens, closes, cursors, read, row,
                   dest, row_count, output, error, raisedAt>>

\* Lines 124-127: flush() then close(); close() is not reached when flush()
\* raises, and the exception of flush() replaces the one propagating.
dump_fc_finally ==
    /\ pc = "finally"
    /\ IF file_obj = "open"
       THEN \E ok \in BOOLEAN :
            IF ok
            THEN /\ file_obj' = "closed"
                 /\ closes' = closes + 1
                 /\ pc' = (IF error = "" THEN "returned" ELSE "raised")
                 /\ NoRaise
            ELSE /\ UNCHANGED <<file_obj, closes>>
                 /\ pc' = "raised"
                 /\ Raise("OSError", "flush")
       ELSE /\ UNCHANGED <<file_obj, closes>>
            /\ pc' = (IF error = "" THEN "returned" ELSE "raised")
            /\ NoRaise
    /\ UNCHANGED <<inputs, field_list, opens, cursor, cursors, read, row, dest,
                   row_count, output>>

(***************************************************************************)
(* write_to_csv (lines 40-58, with _open_csv_file, lines 30-38).           *)
(***************************************************************************)
\* Line 45: the destination is opened before anything else.
write_to_csv_open ==
    /\ pc = "w_open"
    /\ opens' = opens + 1
    /\ \E ok \in BOOLEAN :
         IF ok
         THEN file_obj' = "open" /\ pc' = "w_cursor" /\ NoRaise
         ELSE file_obj' = file_obj /\ pc' = "raised" /\ Raise("OSError", "open")
    /\ UNCHANGED <<inputs, field_list, closes, cursor, cursors, read, row, dest,
                   row_count, output>>

\* Lines 47-52: a cursor on a source that does not exist cannot be opened.
write_to_csv_cursor ==
    /\ pc = "w_cursor"
    /\ cursors' = cursors + 1
    /\ \E ok \in (IF exists THEN BOOLEAN ELSE {FALSE}) :
         IF ok
         THEN /\ cursor' = "open"
              /\ field_list' = cursor_fields(schema, field_names)
              /\ pc' = "w_header"
              /\ NoRaise
         ELSE /\ UNCHANGED <<cursor, field_list>>
              /\ pc' = "w_file_exit"
              /\ Raise("RuntimeError", "cursor")
    /\ UNCHANGED <<inputs, file_obj, opens, closes, read, row, dest, row_count,
                   output>>

\* Line 54.
write_to_csv_header ==
    /\ pc = "w_header"
    /\ \E ok \in BOOLEAN :
         IF ok
         THEN dest' = Append(dest, HeaderLine(field_list)) /\ pc' = "w_next" /\ NoRaise
         ELSE dest' = dest /\ pc' = "w_cursor_exit" /\ Raise("OSError", "header")
    /\ UNCHANGED <<inputs, field_list, file_obj, opens, closes, cursor, cursors,
                   read, row, row_count, output>>

\* Line 55.
write_to_csv_next ==
    /\ pc = "w_next"
    /\ IF read < nrows
       THEN \E ok \in BOOLEAN :
            IF ok
            THEN /\ read' = read + 1
                 /\ row' = cursor_row(schema, field_list, read + 1)
                 /\ pc' = "w_writerow"
                 /\ NoRaise
            ELSE /\ UNCHANGED <<read, row>>
                 /\ pc' = "w_cursor_exit"
                 /\ Raise("RuntimeError", "next")
       ELSE /\ UNCHANGED <<read, row>>
            /\ pc' = "w_cursor_exit"
            /\ NoRaise
    /\ UNCHANGED <<inputs, field_list, file_obj, opens, closes, cursor, cursors,
                   dest, row_count, output>>

\* Lines 56-57: the row is written as the cursor gave it, then counted.
write_to_csv_writerow ==
    /\ pc = "w_writerow"
    /\ \E ok \in BOOLEAN :
         IF ok
         THEN /\ dest' = Append(dest, RowLine(row))
              /\ row_count' = row_count + 1
              /\ pc' = "w_next"
              /\ NoRaise
         ELSE /\ UNCHANGED <<dest, row_count>>
              /\ pc' = "w_cursor_exit"
              /\ Raise("OSError", "writerow")
    /\ UNCHANGED <<inputs, field_list, file_obj, opens, closes, cursor, cursors,
                   read, row, output>>

\* Line 47: leaving the inner with block releases the cursor.
write_to_csv_cursor_exit ==
    /\ pc = "w_cursor_exit"
    /\ cursor' = "released"
    /\ pc' = "w_file_exit"
    /\ UNCHANGED <<inputs, field_list, file_obj, opens, closes, cursors, read, row,
                   dest, row_count, output, error, raisedAt>>

\* Line 45: leaving the outer with block closes the file; line 58 returns.
write_to_csv_file_exit ==
    /\ pc = "w_file_exit"
    /\ file_obj' = "closed"
    /\ closes' = closes + 1
    /\ pc' = (IF error = "" THEN "returned" ELSE "raised")
    /\ UNCHANGED <<inputs, field_list, opens, cursor, cursors, read, row, dest,
                   row_count, output, error, raisedAt>>

(***************************************************************************)
(* get_fields_from_table (lines 13-28).                                    *)
(***************************************************************************)
get_fields_from_table ==
    /\ pc = "g_call"
    /\ IF ~exists
       THEN /\ pc' = "raised"
            /\ Raise("OSError", "describe")
            /\ output' = output
       ELSE LET res == get_fields_loop(schema, 1, omit_fields_re, <<>>)
            IN  IF res.raised = ""
                THEN pc' = "returned" /\ output' = res.output /\ NoRaise
                ELSE pc' = "raised" /\ output' = output /\ Raise(res.raised, "loop")
    /\ UNCHANGED <<inputs, field_list, file_obj, opens, closes, cursor, cursors,
                   read, row, dest, row_count>>

Next ==
    \/ dump_fc_exists
    \/ dump_fc_describe
    \/ dump_fc_open
    \/ dump_fc_header
    \/ dump_fc_cursor
    \/ dump_fc_next
    \/ dump_fc_writerow
    \/ dump_fc_cursor_exit
    \/ dump_fc_finally
    \/ write_to_csv_open
    \/ write_to_csv_cursor
    \/ write_to_csv_header
    \/ write_to_csv_next
    \/ write_to_csv_writerow
    \/ write_to_csv_cursor_exit
    \/ write_to_csv_file_exit
    \/ get_fields_from_table

Spec == Init /\ [][Next]_vars

(***************************************************************************)
(* Properties.                                                             *)
(***************************************************************************)
Range(s) == {s[i] : i \in 1..Len(s)}

Names(fields) == [i \in 1..Len(fields) |-> fields[i].name]

\* dump_fc has built field_list.
Resolved == op = "dump_fc" /\ exists /\ pc \notin {"exists", "describe"}

\* The exclusion rules of the call: the identifier flag and the name pattern.
ExcludedByConfig(f) ==
    \/ (omit_oid /\ f.type = "OID")
    \/ \E p \in Range(skip_re) : ReMatch(p, f.name)

HasGeometry == \E i \in 1..Len(schema) : schema[i].type = "Geometry"

HasKeptGeometry ==
    \E i \in 1..Len(schema) :
        schema[i].type = "Geometry" /\ ~ExcludedByConfig(schema[i])

NoExcludedField ==
    \A i \in 1..Len(schema) :
        ExcludedByConfig(schema[i]) => schema[i].name \notin Range(field_list)

\* The lines the destination holds after the header and the first k rows of
\* the cursor on the fields `names` went through dump_fc.
DumpLines(names, k) ==
    <<HeaderLine(names)>> \o
    [i \in 1..k |-> RowLine(prepare_row(cursor_row(schema, names, i)))]

\* C1: in every terminal state of dump_fc in which the destination had been
\* opened, the destination handle is closed, and was closed exactly once.
C1_HandleClosedOnEveryExit ==
    (op = "dump_fc" /\ pc \in Terminal /\ file_obj # "None")
        => (file_obj = "closed" /\ closes = 1)

\* C2 (as stated): the field list never holds an excluded field, and holds
\* SHAPE@WKB if and only if the schema has a field of type Geometry.
C2_GeometryIffAnyGeometryField ==
    Resolved => /\ NoExcludedField
                /\ (SHAPE_WKB \in Range(field_list) <=> HasGeometry)

\* C2 (amended): the field list never holds an excluded field, and holds
\* SHAPE@WKB if and only if the schema has a field of type Geometry that the
\* exclusion rules do not exclude.
C2_GeometryIffKeptGeometryField ==
    Resolved => /\ NoExcludedField
                /\ (SHAPE_WKB \in Range(field_list) <=> HasKeptGeometry)

C2_Witness ==
    /\ Resolved
    /\ HasGeometry
    /\ ~HasKeptGeometry
    /\ SHAPE_WKB \notin Range(field_list)
    /\ \E i \in 1..Len(schema) :
          schema[i].type = "OID" /\ omit_oid /\ schema[i].name \notin Range(field_list)

\* C3: once open() of the destination has failed, in dump_fc or write_to_csv,
\* no cursor has been or will be opened, no row read, nothing written, and
\* the error of open() is the one that reaches the caller.
C3_OpenFailureFailsFast ==
    (op \in {"dump_fc", "write_to_csv"} /\ "open" \in Range(raisedAt))
        => /\ cursors = 0
           /\ cursor = "None"
           /\ read = 0
           /\ dest = <<>>
           /\ raisedAt = <<"open">>
           /\ error = "OSError"
           /\ pc \in {"finally", "raised"}

C3_Witness ==
    /\ op = "dump_fc"
    /\ pc = "raised"
    /\ raisedAt = <<"open">>
    /\ nrows > 0
    /\ cursors = 0

\* C4: when the cursor of dump_fc raises after k of n rows were written, the
\* call ends raising that error, the destination holds the header and those
\* k rows in cursor order, and the destination handle is closed.
C4_MidStreamFailure ==
    (op = "dump_fc" /\ pc \in Terminal /\ "next" \in Range(raisedAt))
        => /\ pc = "raised"
           /\ error = "RuntimeError"
           /\ read < nrows
           /\ dest = DumpLines(field_list, read)
           /\ file_obj = "closed"

\* C5: when the source does not exist, dump_fc never calls open() on the
\* destination, never opens a cursor and writes nothing; it raises
\* FileNotFoundError from its first statement.
C5_MissingSourceTouchesNothing ==
    (op = "dump_fc" /\ ~exists)
        => /\ opens = 0
           /\ file_obj = "None"
           /\ cursors = 0
           /\ cursor = "None"
           /\ dest = <<>>
           /\ pc \in {"exists", "raised"}
           /\ (pc = "raised" => (error = "FileNotFoundError" /\ raisedAt = <<"exists">>))

C5_Witness ==
    /\ op = "dump_fc"
    /\ ~exists
    /\ pc = "raised"
    /\ out_file # ""

\* C6: whenever the destination holds anything, its first line is the header,
\* no other line is a header, the header is the field list the cursor is
\* opened with, and data line i holds, for each header field in header order,
\* the value of that field in row i of the source.
C6_HeaderFirstAndRowsAligned ==
    (op \in {"dump_fc", "write_to_csv"} /\ Len(dest) > 0)
        => /\ dest[1] = HeaderLine(field_list)
           /\ \A i \in 2..Len(dest) :
                 /\ dest[i].kind = "row"
                 /\ Len(dest[i].cells) = Len(dest[1].cells)
                 /\ dest[i].cells =
                      (IF op = "dump_fc"
                       THEN prepare_row(cursor_row(schema, dest[1].cells, i - 1))
                       ELSE cursor_row(schema, dest[1].cells, i - 1))

C6_Witness ==
    /\ op = "dump_fc"
    /\ Len(dest) = 3
    /\ Len(field_list) = 3
    /\ field_list[3] = SHAPE_WKB
    /\ pc = "returned"

\* C7: the field list is the names of the fields that are neither excluded
\* nor of type Geometry, in schema order, followed by SHAPE@WKB at most once
\* and only in the last place; no Geometry field is listed by its own name.
KeptOrdinary(f) == ~ExcludedByConfig(f) /\ f.type # "Geometry"

C7_OrderAndTrailingGeometry ==
    Resolved =>
        LET n == Len(field_list)
            body == IF n > 0 /\ field_list[n] = SHAPE_WKB
                    THEN SubSeq(field_list, 1, n - 1) ELSE field_list
        IN  /\ body = Names(SelectSeq(schema, KeptOrdinary))
            /\ \A i \in 1..n : field_list[i] = SHAPE_WKB => i = n
            /\ \A i \in 1..Len(schema) :
                  schema[i].type = "Geometry" => schema[i].name \notin Range(field_list)

C7_Witness ==
    /\ Resolved
    /\ omit_oid
    /\ schema = << [name |-> "OBJECTID", type |-> "OID"],
                   [name |-> "NAME", type |-> "String"],
                   [name |-> "Shape", type |-> "Geometry"] >>
    /\ field_list = <<"NAME", SHAPE_WKB>>

\* C8: get_fields_from_table on an existing table returns the names of the
\* fields that do not match omit_fields_re, in table order, and never raises.
NotOmitted(f) == \A p \in Range(omit_fields_re) : ~ReMatch(p, f.name)

C8_ReturnsFilteredNames ==
    (op = "get_fields_from_table" /\ exists /\ pc # "g_call")
        => /\ pc = "returned"
           /\ output = Names(SelectSeq(schema, NotOmitted))

\* C9: no export ends with its cursor open; the destination handle is never
\* closed while the cursor is open; and after a failure of the cursor the
\* destination is left open only when flush() of the destination itself
\* raised, never because of the cursor.
CursorFailed == "cursor" \in Range(raisedAt) \/ "next" \in Range(raisedAt)

C10_HeaderBeforeCursor ==
    (op = "dump_fc" /\ pc \in Terminal /\ "cursor" \in Range(raisedAt))
        => /\ pc = "raised"
           /\ error = "RuntimeError"
           /\ dest = <<HeaderLine(field_list)>>
           /\ file_obj = "closed"

====
